---- MODULE Spec2Model ----
(***************************************************************************)
(* Battleship (src/battleship/game.py): the game-state model (Ship, Board, *)
(* Player) and the ComputerPlayer's hunt/target engine.                    *)
(*                                                                         *)
(* A Coordinate is a pair <<row, col>>.  A Ship object is named by a       *)
(* reference <<owner, index into FLEET>>; Python's None is <<>>.           *)
(***************************************************************************)
EXTENDS Integers, Sequences, FiniteSets, TLC

BOARD_SIZE == 10

FLEET ==
  << [name |-> "Carrier",    length |-> 5],
     [name |-> "Battleship", length |-> 4],
     [name |-> "Cruiser",    length |-> 3],
     [name |-> "Submarine",  length |-> 3],
     [name |-> "Destroyer",  length |-> 2] >>

Players == {"human", "computer"}

None == <<>>

ShipRefs == Players \X (1..Len(FLEET))

\* Every cell of the board: ComputerPlayer.__init__'s available_targets.
Grid == (0..(BOARD_SIZE - 1)) \X (0..(BOARD_SIZE - 1))

(***************************************************************************)
(* Bounds of the model.  Inputs (placement starts, attack coordinates,     *)
(* hunt-mode draws) are taken from a window of the board: its first Cells  *)
(* cells, counted from the bottom-right corner leftwards along a strip     *)
(* Width columns wide and then upwards, row after row.  A ship started in  *)
(* the window lies next to the edges, so placements leave the board.       *)
(***************************************************************************)
WinCells == 6
WinWidth == 2
FleetCells == 20
FleetWidth == 4
DeployCells == 4
HarbourCells == 10

Corner(cells, width) ==
  { << BOARD_SIZE - 1 - (k \div width), BOARD_SIZE - 1 - (k % width) >> :
      k \in 0..(cells - 1) }

Window == Corner(WinCells, WinWidth)
FleetWindow == Corner(FleetCells, FleetWidth)

VARIABLES
  ship,               \* ShipRef -> Ship object (name, length, coordinates, hits)
  ships,              \* player -> Board.ships, a mapping coordinate -> ShipRef
  misses,             \* player -> Board.misses
  hits,               \* player -> Board.hits
  shots_taken,        \* player -> Player.shots_taken
  available_targets,  \* ComputerPlayer.available_targets
  target_queue,       \* ComputerPlayer.target_queue
  turns,              \* number of ComputerPlayer.take_turn calls made so far
  kept_queue,         \* target_queue of a ComputerPlayer that fires along with
                      \* this one and never calls _clear_queue_for_sunk_ship
  outcome             \* the last call: what was called, with what, and its result

vars == << ship, ships, misses, hits, shots_taken,
           available_targets, target_queue, turns, kept_queue, outcome >>

boardVars == << ships, misses, hits >>
computerVars == << shots_taken, available_targets, target_queue, turns, kept_queue >>

----------------------------------------------------------------------------
(* Helpers on sequences and mappings *)

Range(s) == { s[k] : k \in 1..Len(s) }

\* Mutant: the lookup never finds the key
Get_NotFound(d, key) == None

\* dict.get(key): the value, or None
Get(d, key) == IF key \in DOMAIN d THEN d[key] ELSE None

\* d after `for coord in coords: d[coord] = ref`
SetAll(d, coords, ref) ==
  [ c \in (DOMAIN d) \cup Range(coords) |-> IF c \in Range(coords) THEN ref ELSE d[c] ]

EmptyDict == [ c \in {} |-> None ]

\* The result of a call on the Board or Player of `on`: what it returned (ret,
\* and the Ship it refers to), or the error it raised; arg is the coordinate,
\* or the cells of the accepted Ship, it was about.
Returned(op, on, arg, ret, ref) ==
  [ op |-> op, on |-> on, arg |-> arg, ret |-> ret, ref |-> ref, raised |-> "none" ]

Raised(op, on, arg, error) ==
  [ op |-> op, on |-> on, arg |-> arg, ret |-> FALSE, ref |-> None, raised |-> error ]

----------------------------------------------------------------------------
(* Ship *)

\* Ship(name, length): coordinates and hits default to empty
NewShip(i) ==
  [ name |-> FLEET[i].name, length |-> FLEET[i].length,
    coordinates |-> << >>, hits |-> {} ]

\* Ship.place: the cells from start, along the row or down the column
place(length, start, horizontal) ==
  [ offset \in 1..length |->
      IF horizontal THEN << start[1], start[2] + (offset - 1) >>
                    ELSE << start[1] + (offset - 1), start[2] >> ]

\* Ship.is_sunk
is_sunk(s) == Range(s.coordinates) = s.hits

\* Mutant: the hit is not kept on the Ship
register_hit_Dropped(s, coord) == s

\* Ship.register_hit
register_hit(s, coord) ==
  IF coord \in Range(s.coordinates)
    THEN [ s EXCEPT !.hits = @ \cup {coord} ]
    ELSE s

----------------------------------------------------------------------------
(* Board *)

\* Board._in_bounds
_in_bounds(coord) ==
  /\ 0 <= coord[1] /\ coord[1] < BOARD_SIZE
  /\ 0 <= coord[2] /\ coord[2] < BOARD_SIZE

\* Mutants of the first loop of Board.place_ship
CanPlace_NoOverlapCheck(occupied, coords) ==
  \A k \in 1..Len(coords) : _in_bounds(coords[k])

CanPlace_NoBoundsCheck(occupied, coords) ==
  \A k \in 1..Len(coords) : coords[k] \notin occupied

CanPlace_Never(occupied, coords) == FALSE

\* Board.place_ship, first loop: no cell out of bounds or already occupied
CanPlace(occupied, coords) ==
  \A k \in 1..Len(coords) :
     ~ ( ~ _in_bounds(coords[k]) \/ coords[k] \in occupied )

\* Mutant of the second loop of Board.place_ship: the last cell is not committed
Commit_DropLast(d, coords, ref) ==
  SetAll(d, SubSeq(coords, 1, Len(coords) - 1), ref)

\* Board.place_ship, second loop
Commit(d, coords, ref) == SetAll(d, coords, ref)

\* The distinct ships a Board refers to: set(self.ships.values())
ShipsOf(p) == { ships[p][c] : c \in DOMAIN ships[p] }

\* A fresh Ship for FLEET[i] is built, placed at (start, horizontal) and offered
\* to p's Board: HumanPlayer.place_ships, _randomly_place_remaining and
\* ComputerPlayer.place_ships.  A rejected Ship object is dropped (or placed
\* anew before its next use), so only an accepted one, with its cells, is kept.
PlaceShip(p, i, start, horizontal) ==
  LET coords == place(FLEET[i].length, start, horizontal)
      ok     == CanPlace(DOMAIN ships[p], coords)
  IN /\ << p, i >> \notin ShipsOf(p)
     /\ ships' = [ ships EXCEPT ![p] = IF ok THEN Commit(@, coords, << p, i >>) ELSE @ ]
     /\ ship' = [ ship EXCEPT ![<< p, i >>] =
                    IF ok THEN [ NewShip(i) EXCEPT !.coordinates = coords ] ELSE @ ]
     /\ outcome' = Returned("place_ship", p, ship'[<< p, i >>].coordinates, ok, << p, i >>)
     /\ UNCHANGED << misses, hits, computerVars >>

\* Mutant of the guard of Board.receive_attack: only misses are remembered
AlreadyTargeted_MissesOnly(h, m, coord) == coord \in m

\* Board.receive_attack, the guard: coord in self.hits or coord in self.misses
AlreadyTargeted(h, m, coord) == coord \in h \/ coord \in m

\* Mutant: the attack falls through to the miss branch after a hit
MissesAfter_FallThrough(m, coord, s) == m \cup {coord}

\* Board.receive_attack: self.misses after the attack struck s (None: no ship)
MissesAfter(m, coord, s) == IF s # None THEN m ELSE m \cup {coord}

\* Mutant: the hit is registered on the ship but not on the Board
HitsAfter_NotRecorded(h, coord, s) == h

\* Board.receive_attack: self.hits after the attack struck s (None: no ship)
HitsAfter(h, coord, s) == IF s # None THEN h \cup {coord} ELSE h

\* Board.receive_attack on p's Board.  A Ship object is always truthy, so
\* `if ship:` asks whether the mapping has an owner for coord.
receive_attack(p, coord) ==
  LET s == Get(ships[p], coord)
  IN IF AlreadyTargeted(hits[p], misses[p], coord)
       THEN /\ outcome' = Raised("receive_attack", p, << coord >>, "ValueError")
            /\ UNCHANGED << ship, hits, misses >>
       ELSE /\ ship' = IF s # None
                         THEN [ ship EXCEPT ![s] = register_hit(@, coord) ]
                         ELSE ship
            /\ hits' = [ hits EXCEPT ![p] = HitsAfter(@, coord, s) ]
            /\ misses' = [ misses EXCEPT ![p] = MissesAfter(@, coord, s) ]
            /\ outcome' = Returned("receive_attack", p, << coord >>, s # None, s)

\* A caller attacks p's Board at coord
ReceiveAttack(p, coord) ==
  /\ receive_attack(p, coord)
  /\ UNCHANGED << ships, computerVars >>

\* Ship is a dataclass with eq and without frozen: it has no __hash__, so a set
\* of Ship objects cannot be built (TypeError: unhashable type).
ShipHashable == FALSE

\* Board.has_lost: what it returns, or the error that building the set of a
\* non-empty Board's Ship objects raises.
has_lost(p) ==
  LET values == ShipsOf(p)
  IN IF values # {} /\ ~ ShipHashable
       THEN Raised("has_lost", p, << >>, "TypeError")
       ELSE Returned("has_lost", p, << >>,
                     values # {} /\ \A s \in values : is_sunk(ship[s]), None)

\* Player.all_ships_sunk
all_ships_sunk(p) == has_lost(p)

----------------------------------------------------------------------------
(* ComputerPlayer *)

\* Mutant: the front of the queue is taken without asking whether it is stale
ScanQueue_NoStaleCheck(queue, available) ==
  IF queue = << >>
    THEN [ found |-> FALSE, coord |-> None, queue |-> << >> ]
    ELSE [ found |-> TRUE, coord |-> Head(queue), queue |-> Tail(queue) ]

\* Mutant: the queue is emptied whenever a coordinate is taken from it
ScanQueue_DropRest(queue, available) ==
  LET live == { k \in 1..Len(queue) : queue[k] \in available }
  IN IF live = {}
       THEN [ found |-> FALSE, coord |-> None, queue |-> << >> ]
       ELSE [ found |-> TRUE,
              coord |-> queue[CHOOSE k \in live : \A j \in live : k <= j],
              queue |-> << >> ]

\* Mutant: the queue is never consulted, every shot is a hunt draw
ScanQueue_AlwaysHunt(queue, available) ==
  [ found |-> FALSE, coord |-> None, queue |-> << >> ]

\* ComputerPlayer._select_target, the loop over target_queue: the first queued
\* coordinate still in available_targets and what is left of the queue behind
\* it; found is FALSE when the queue ran empty.
RECURSIVE ScanQueue(_, _)
ScanQueue(queue, available) ==
  IF queue = << >>
    THEN [ found |-> FALSE, coord |-> None, queue |-> << >> ]
    ELSE IF Head(queue) \in available
           THEN [ found |-> TRUE, coord |-> Head(queue), queue |-> Tail(queue) ]
           ELSE ScanQueue(Tail(queue), available)

\* Row-major position of a cell, to name one cell of a set
Index(c) == c[1] * BOARD_SIZE + c[2]

First(S) == CHOOSE c \in S : \A d \in S : Index(c) <= Index(d)

\* The draws of random.choice(tuple(available_targets)) that the model follows:
\* any untried cell of the window, and the first untried cell outside it once
\* the window is used up.
Draws(available) ==
  IF available \cap Window # {} THEN available \cap Window
  ELSE IF available # {} THEN { First(available) }
  ELSE {}

\* Mutant: a neighbour is enqueued whether or not it was fired upon
Neighbors_Unfiltered(coord, available) ==
  SelectSeq(<< << coord[1] - 1, coord[2] >>, << coord[1] + 1, coord[2] >>,
               << coord[1], coord[2] - 1 >>, << coord[1], coord[2] + 1 >> >>,
            LAMBDA n : _in_bounds(n))

\* Mutant: the diagonal cells instead of the orthogonal ones
Neighbors_Diagonal(coord, available) ==
  SelectSeq(<< << coord[1] - 1, coord[2] - 1 >>, << coord[1] + 1, coord[2] + 1 >>,
               << coord[1] + 1, coord[2] - 1 >>, << coord[1] - 1, coord[2] + 1 >> >>,
            LAMBDA n : n \in available /\ _in_bounds(n))

\* ComputerPlayer._enqueue_neighbors: what is appended to target_queue
Neighbors(coord, available) ==
  SelectSeq(<< << coord[1] - 1, coord[2] >>, << coord[1] + 1, coord[2] >>,
               << coord[1], coord[2] - 1 >>, << coord[1], coord[2] + 1 >> >>,
            LAMBDA n : n \in available /\ _in_bounds(n))

\* Mutant: the purge empties the queue
_clear_queue_for_sunk_ship_All(queue, s) == << >>

\* Mutant: the purge keeps every entry
_clear_queue_for_sunk_ship_Kept(queue, s) == queue

\* ComputerPlayer._clear_queue_for_sunk_ship
_clear_queue_for_sunk_ship(queue, s) ==
  SelectSeq(queue, LAMBDA c : c \notin Range(s.coordinates))

\* Mutant: the coordinate fired at stays available
AvailableAfter_Kept(available, coord) == available

\* ComputerPlayer.take_turn: self.available_targets.remove(coord)
AvailableAfter(available, coord) == available \ {coord}

\* The same turn taken by the ComputerPlayer without the purge: what its
\* _select_target leaves of its queue, and the neighbours of a hit behind it.
KeptAfter(coord, hit, available) ==
  LET rest == ScanQueue(kept_queue, available_targets).queue
  IN IF hit THEN rest \o Neighbors(coord, available) ELSE rest

\* ComputerPlayer.take_turn from the selected coordinate on; queue is what
\* _select_target left of target_queue.
Fire(opponent, coord, queue) ==
  LET s      == Get(ships[opponent], coord)
      hit    == ~ AlreadyTargeted(hits[opponent], misses[opponent], coord) /\ s # None
      avail  == AvailableAfter(available_targets, coord)
      queued == queue \o Neighbors(coord, avail)
  IN /\ shots_taken' = [ shots_taken EXCEPT !["computer"] = @ \cup {coord} ]
     /\ available_targets' = avail
     /\ receive_attack(opponent, coord)
     /\ target_queue' =
          IF AlreadyTargeted(hits[opponent], misses[opponent], coord) THEN queue
          ELSE IF ~ hit THEN queue
          ELSE IF is_sunk(register_hit(ship[s], coord))
            THEN _clear_queue_for_sunk_ship(queued, ship[s])
            ELSE queued
     /\ kept_queue' = KeptAfter(coord, hit, avail)
     /\ turns' = turns + 1
     /\ UNCHANGED ships

\* ComputerPlayer.take_turn against opponent's Board.  Without a selectable
\* queue entry and without an available target, random.choice raises
\* IndexError on the empty tuple, the queue having been popped empty.
TakeTurn(opponent) ==
  LET sel == ScanQueue(target_queue, available_targets)
  IN IF sel.found
       THEN Fire(opponent, sel.coord, sel.queue)
       ELSE IF available_targets = {}
         THEN /\ target_queue' = << >>
              /\ kept_queue' = ScanQueue(kept_queue, available_targets).queue
              /\ outcome' = Raised("take_turn", "computer", << >>, "IndexError")
              /\ UNCHANGED << ship, boardVars, shots_taken, available_targets, turns >>
         ELSE \E coord \in Draws(available_targets) : Fire(opponent, coord, << >>)

----------------------------------------------------------------------------
(* Specifications *)

\* After construction: empty Boards, Ship objects not yet placed, a
\* ComputerPlayer that may fire at every cell.
Init ==
  /\ ship = [ r \in ShipRefs |-> NewShip(r[2]) ]
  /\ ships = [ p \in Players |-> EmptyDict ]
  /\ misses = [ p \in Players |-> {} ]
  /\ hits = [ p \in Players |-> {} ]
  /\ shots_taken = [ p \in Players |-> {} ]
  /\ available_targets = Grid
  /\ target_queue = << >>
  /\ turns = 0
  /\ kept_queue = << >>
  /\ outcome = Returned("none", "none", << >>, FALSE, None)

\* The fleet entries offered to the Board under attack: those short enough to
\* fit the window (a longer ship started in the window always leaves the board).
Small == { i \in 1..Len(FLEET) : FLEET[i].length <= 3 }

Smaller == { i \in Small : FLEET[i].name # "Cruiser" }

Place(p, indices, starts) ==
  \E i \in indices, start \in starts, horizontal \in BOOLEAN :
     PlaceShip(p, i, start, horizontal)

\* One Board under any sequence of place_ship and receive_attack calls
PlaceAny == Place("human", Smaller, Window)

AttackAny == \E coord \in Window : ReceiveAttack("human", coord)

NextBoard == PlaceAny \/ AttackAny

SpecBoard == Init /\ [][NextBoard]_vars

\* One Board on which the fleet is placed, entry after entry, as place_ships
\* and _randomly_place_remaining do
PlaceFleet ==
  \E i \in 1..Len(FLEET), start \in FleetWindow, horizontal \in BOOLEAN :
     /\ \A j \in 1..(i - 1) : << "computer", j >> \in ShipsOf("computer")
     /\ PlaceShip("computer", i, start, horizontal)

NextFleet == PlaceFleet

SpecFleet == Init /\ [][NextFleet]_vars

\* A ComputerPlayer firing at a Board whose ships were placed beforehand
PlaceBefore == turns = 0 /\ Place("human", Small, Window)

ComputerTurn == TakeTurn("human")

Next == PlaceBefore \/ ComputerTurn

Spec == Init /\ [][Next]_vars

-----------------------------------------------------------------------------
(* Coordinates as text.  A text is the sequence of its characters. *)

ascii_uppercase ==
  << "A", "B", "C", "D", "E", "F", "G", "H", "I", "J", "K", "L", "M",
     "N", "O", "P", "Q", "R", "S", "T", "U", "V", "W", "X", "Y", "Z" >>

digits == << "0", "1", "2", "3", "4", "5", "6", "7", "8", "9" >>

\* str(n) for a natural number n
RECURSIVE str(_)
str(n) ==
  IF n < Len(digits) THEN << digits[n + 1] >>
  ELSE str(n \div Len(digits)) \o << digits[(n % Len(digits)) + 1] >>

\* int(text) for a text of decimal digits
RECURSIVE int(_)
int(text) ==
  IF text = << >> THEN 0
  ELSE LET last == text[Len(text)]
           d    == CHOOSE k \in 1..Len(digits) : digits[k] = last
       IN Len(digits) * int(SubSeq(text, 1, Len(text) - 1)) + (d - 1)

\* seq.index(x), counted from 0
index(seq, x) ==
  ( CHOOSE k \in 1..Len(seq) : seq[k] = x /\ \A j \in 1..(k - 1) : seq[j] # x ) - 1

COLUMNS == SubSeq(ascii_uppercase, 1, BOARD_SIZE)

ROWS == [ i \in 1..BOARD_SIZE |-> str(i) ]

parse_coordinate(text) ==
  IF Len(text) < 2 THEN None
  ELSE LET column_char == text[1]
           row_part    == Tail(text)
       IN IF column_char \notin Range(COLUMNS) \/ row_part \notin Range(ROWS)
            THEN None
            ELSE << int(row_part) - 1, index(COLUMNS, column_char) >>

format_coordinate(coord) == << COLUMNS[coord[2] + 1] >> \o str(coord[1] + 1)

-----------------------------------------------------------------------------
(* HumanPlayer.take_turn and play_game *)

\* What the human may type at the prompt (stripped, upper case): the text of
\* any cell of the corner, and texts that parse_coordinate refuses: empty, one
\* character, a column or a row off the board, the parts in the wrong order.
Typed ==
  { format_coordinate(c) : c \in Corner(DeployCells, WinWidth) }
    \cup { << >>, << "J" >>,
           << ascii_uppercase[BOARD_SIZE + 1] >> \o str(1),
           << "J" >> \o str(BOARD_SIZE + 1),
           << "J" >> \o str(0),
           str(1) \o << "J" >> }

\* Mutant: no shot is remembered as taken
AlreadyFired_Never(shots, coord) == FALSE

\* HumanPlayer.take_turn: coord in self.shots_taken
AlreadyFired(shots, coord) == coord \in shots

\* HumanPlayer.take_turn against opponent's Board.  A text that does not
\* parse, or the text of a coordinate already fired at, is asked for again
\* and changes nothing: the turn is the prompt that is accepted.
HumanTurn(opponent) ==
  \E text \in Typed :
     LET coord == parse_coordinate(text)
     IN /\ coord # None
        /\ ~ AlreadyFired(shots_taken["human"], coord)
        /\ shots_taken' = [ shots_taken EXCEPT !["human"] = @ \cup {coord} ]
        /\ receive_attack(opponent, coord)
        /\ UNCHANGED << ships, available_targets, target_queue, turns, kept_queue >>

\* The draws of (row, col) that place_ships follows for fleet entry i: the
\* cells of the corner, and one cell of its own from which the entry fits
\* horizontally, clear of the window and of the other entries' cells.
Berths ==
  << << BOARD_SIZE - 4, 0 >>, << BOARD_SIZE - 3, 0 >>, << BOARD_SIZE - 2, 0 >>,
     << BOARD_SIZE - 1, 0 >>, << BOARD_SIZE - 1, 3 >> >>

Starts(i) == Corner(DeployCells, WinWidth) \cup { Berths[i] }

Deployed(p) == \A i \in 1..Len(FLEET) : << p, i >> \in ShipsOf(p)

\* One pass of the placement loop of p.place_ships(FLEET): the next fleet
\* entry is tried at a start and an orientation, and kept if the Board accepts.
place_ships(p) ==
  \E i \in 1..Len(FLEET) :
     \E start \in Starts(i), horizontal \in BOOLEAN :
        /\ \A j \in 1..(i - 1) : << p, j >> \in ShipsOf(p)
        /\ PlaceShip(p, i, start, horizontal)

\* Cells along the bottom of the board, wide enough for the longer entries
Harbour == Corner(HarbourCells, FleetWidth)

\* ComputerPlayer.place_ships(FLEET), and _randomly_place_remaining alike, on
\* the computer's Board, the draws taken from Harbour and the entry's own
\* cell.  The draws of random are fair: a draw that the Board accepts,
\* possible at every pass, is not put off for ever.
Deploy ==
  \E i \in 1..Len(FLEET) :
     \E start \in Harbour \cup { Berths[i] }, horizontal \in BOOLEAN :
        /\ \A j \in 1..(i - 1) : << "computer", j >> \in ShipsOf("computer")
        /\ PlaceShip("computer", i, start, horizontal)

Accepted == Deploy /\ outcome'.ret

NextDeploy == Deploy

SpecDeploy == Init /\ [][NextDeploy]_vars /\ WF_vars(Accepted)

\* setup_game: the human's fleet, then the computer's
setup_game ==
  IF ~ Deployed("human") THEN place_ships("human")
  ELSE ~ Deployed("computer") /\ place_ships("computer")

\* play_game's turn at the top of its loop: every take_turn that returned
\* added one coordinate to its player's shots_taken and was followed by
\* turn += 1.
turn == Cardinality(shots_taken["human"]) + Cardinality(shots_taken["computer"])

\* The take_turn that play_game calls when turn is as above
take_turn ==
  IF turn % 2 = 0 THEN HumanTurn("computer") ELSE TakeTurn("human")

\* One step of play_game after setup_game: a take_turn at the top of the
\* loop, or the defender's all_ships_sunk() after a take_turn that returned.
\* An exception of either call, and a True from all_ships_sunk, end play_game.
play_game ==
  /\ Deployed("human") /\ Deployed("computer")
  /\ outcome.raised = "none"
  /\ IF outcome.op = "receive_attack"
       THEN /\ outcome' = all_ships_sunk(outcome.on)
            /\ UNCHANGED << ship, boardVars, computerVars >>
       ELSE ( outcome.op = "has_lost" => ~ outcome.ret ) /\ take_turn

NextGame == setup_game \/ play_game

SpecGame == Init /\ [][NextGame]_vars

\* The turns of play_game whatever its all_ships_sunk() calls say: the players
\* take turns for as long as they can.  Every run of play_game, the checks
\* left out, is the beginning of a run of this.
Turns ==
  /\ Deployed("human") /\ Deployed("computer")
  /\ outcome.raised = "none"
  /\ take_turn

NextTurns == setup_game \/ Turns

SpecTurns == Init /\ [][NextTurns]_vars

----------------------------------------------------------------------------
(* Claims *)

Cells(r) == Range(ship[r].coordinates)

RECURSIVE TotalLength(_)
TotalLength(refs) ==
  IF refs = {} THEN 0
  ELSE LET r == CHOOSE x \in refs : TRUE
       IN ship[r].length + TotalLength(refs \ {r})

WholeFleet(p) == \A i \in 1..Len(FLEET) : << p, i >> \in ShipsOf(p)

\* C1: after any place_ship calls on a Board, accepted or rejected, every
\* occupied coordinate has row and column in [0,10) and belongs to one ship
\* only: the cells of two placed ships are disjoint, the mapping holds exactly
\* the cells of the placed ships, each under its owner, so it has as many
\* entries as the placed ships are long; with the whole fleet placed, 17.
C1_OccupancyInBoundsDisjoint ==
  LET d == ships["computer"]
      placed == ShipsOf("computer")
  IN /\ \A c \in DOMAIN d : c[1] \in 0..9 /\ c[2] \in 0..9
     /\ \A r1, r2 \in placed : r1 # r2 => Cells(r1) \cap Cells(r2) = {}
     /\ \A r \in placed : \A c \in Cells(r) : c \in DOMAIN d /\ d[c] = r
     /\ DOMAIN d = UNION { Cells(r) : r \in placed }
     /\ Cardinality(DOMAIN d) = TotalLength(placed)
     /\ WholeFleet("computer") => Cardinality(DOMAIN d) = 17

\* The whole fleet stands on the Board, the last call having been accepted.
C1_Witness ==
  /\ WholeFleet("computer")
  /\ outcome.op = "place_ship" /\ outcome.ret

\* C2: place_ship is all-or-nothing.  A call that returns False leaves the
\* mapping, the ships, hits and misses as they were; a call returns True
\* only when no cell of the ship is out of bounds or occupied, and then the
\* mapping gains the cells of the ship, all of them and nothing else, under
\* that ship, and keeps every earlier entry; hits and misses never change.
C2_PlaceStep ==
  LET p == outcome'.on
      r == outcome'.ref
      cells == Range(outcome'.arg)
      before == ships[p]
      after == ships'[p]
  IN outcome'.op = "place_ship" =>
       /\ hits' = hits /\ misses' = misses
       /\ ~ outcome'.ret => ships' = ships /\ ship' = ship
       /\ outcome'.ret =>
            /\ outcome'.arg = ship'[r].coordinates
            /\ Len(outcome'.arg) = ship'[r].length
            /\ \A c \in cells : _in_bounds(c) /\ c \notin DOMAIN before
            /\ DOMAIN after = (DOMAIN before) \cup cells
            /\ \A c \in cells : after[c] = r
            /\ \A c \in DOMAIN before : after[c] = before[c]

\* C2: every step that is a place_ship call is all-or-nothing, as C2_PlaceStep says.
C2_PlaceShipAllOrNothing == [][C2_PlaceStep]_vars

\* A placement was rejected on a Board that holds a ship, a hit and a miss.
C2_Witness ==
  /\ outcome.op = "place_ship" /\ ~ outcome.ret
  /\ ShipsOf("human") # {}
  /\ hits["human"] # {} /\ misses["human"] # {}

\* C3: receive_attack on a coordinate already in hits or misses raises the
\* already-targeted error and changes nothing (hits, misses, the mapping, every
\* ship's struck cells); and an attack that returned has put its coordinate
\* into hits or misses, so a second call with it fails.
C3_RepeatStep ==
  LET p == outcome'.on
      coord == outcome'.arg[1]
  IN outcome'.op = "receive_attack" =>
       /\ coord \in hits[p] \cup misses[p] =>
            /\ outcome'.raised = "ValueError"
            /\ hits' = hits /\ misses' = misses /\ ships' = ships /\ ship' = ship
       /\ outcome'.raised = "none" => coord \in hits'[p] \cup misses'[p]

\* C3: every repeated receive_attack call fails and changes nothing, as
\* C3_RepeatStep says.
C3_RepeatAttackRejected == [][C3_RepeatStep]_vars

\* The last attack was a repeat and failed.
C3_Witness ==
  /\ outcome.op = "receive_attack" /\ outcome.raised = "ValueError"
  /\ outcome.arg[1] \in hits["human"]

\* C4: for a coordinate not yet targeted, receive_attack returns (True, the
\* owning ship) and adds the coordinate to hits and to that ship's struck
\* cells iff the coordinate is occupied, else returns (False, None) and adds it
\* to misses; nothing else changes, and the mapping never changes.
C4_AttackStep ==
  LET p == outcome'.on
      coord == outcome'.arg[1]
      d == ships[p]
  IN ( outcome'.op = "receive_attack" /\ coord \notin hits[p] \cup misses[p] ) =>
       /\ outcome'.raised = "none"
       /\ ships' = ships
       /\ \A q \in Players \ {p} : hits'[q] = hits[q] /\ misses'[q] = misses[q]
       /\ outcome'.ret = (coord \in DOMAIN d)
       /\ coord \in DOMAIN d =>
            /\ outcome'.ref = d[coord]
            /\ hits'[p] = hits[p] \cup {coord}
            /\ misses' = misses
            /\ ship'[d[coord]] = [ ship[d[coord]] EXCEPT !.hits = @ \cup {coord} ]
            /\ \A r \in ShipRefs \ {d[coord]} : ship'[r] = ship[r]
       /\ coord \notin DOMAIN d =>
            /\ outcome'.ref = None
            /\ misses'[p] = misses[p] \cup {coord}
            /\ hits' = hits
            /\ ship' = ship

\* C4: every receive_attack call on an untargeted coordinate resolves as
\* C4_AttackStep says.
C4_AttackResolved == [][C4_AttackStep]_vars

\* The last attack hit a ship that had been struck before, on a Board that
\* also holds a miss.
C4_Witness ==
  /\ outcome.op = "receive_attack" /\ outcome.ret
  /\ Cardinality(ship[outcome.ref].hits) > 1
  /\ misses["human"] # {}

\* C5: in every state reached by place_ship and receive_attack calls, hits and
\* misses are disjoint and every hit coordinate is ship-occupied.
C5_HitsMissesDisjoint ==
  \A p \in Players :
     /\ hits[p] \cap misses[p] = {}
     /\ hits[p] \subseteq DOMAIN ships[p]

\* Hits and misses on a Board to which a ship was added after an attack.
C5_Witness ==
  /\ hits["human"] # {} /\ misses["human"] # {}
  /\ outcome.op = "place_ship" /\ outcome.ret

\* C6 as claimed: in every state reached by place_ship and receive_attack
\* calls, place_ship calls after attacks included, no coordinate is both
\* ship-occupied and in misses.
C6_NoOccupiedMiss ==
  \A p \in Players : misses[p] \cap DOMAIN ships[p] = {}

\* C6 as amended: an attack never records a miss on an occupied coordinate; a
\* coordinate is both occupied and in misses only when it was a miss already
\* and place_ship, which does not look at misses, accepted a ship over it.
C6_MissStep ==
  \A p \in Players :
     /\ \A c \in misses'[p] \cap DOMAIN ships'[p] : c \in misses[p]
     /\ outcome'.op = "receive_attack" =>
          misses'[p] \cap DOMAIN ships'[p] = misses[p] \cap DOMAIN ships[p]

\* C6 as amended, of every step: C6_MissStep.
C6_MissNeverOnOccupied == [][C6_MissStep]_vars

\* A miss is recorded next to a ship that lies over an earlier miss.
C6_Witness ==
  /\ outcome.op = "receive_attack" /\ outcome.raised = "none" /\ ~ outcome.ret
  /\ \E c \in misses["human"] \cap DOMAIN ships["human"] : c # outcome.arg[1]

\* C7 as claimed: for every placed ship the struck cells are the Board's hits
\* on its cells, and the ship is sunk iff every one of its cells has been
\* attacked.
C7_SunkIffAttacked ==
  \A p \in Players : \A r \in ShipsOf(p) :
     /\ ship[r].hits = hits[p] \cap Cells(r)
     /\ is_sunk(ship[r]) <=> Cells(r) \subseteq hits[p] \cup misses[p]

\* C7 as amended: for every placed ship the struck cells are the Board's hits
\* on its cells (so they are cells of the ship), and the ship is sunk iff
\* every one of its cells is in the Board's hits: attacked and reported a hit.
C7_SunkIffAllHit ==
  \A p \in Players : \A r \in ShipsOf(p) :
     /\ ship[r].hits = hits[p] \cap Cells(r)
     /\ ship[r].hits \subseteq Cells(r)
     /\ is_sunk(ship[r]) <=> Cells(r) \subseteq hits[p]

\* A ship is sunk while another one on the Board is struck and afloat.
C7_Witness ==
  \E r1, r2 \in ShipsOf("human") :
     /\ is_sunk(ship[r1])
     /\ ship[r2].hits # {} /\ ~ is_sunk(ship[r2])

\* What "has lost" means: at least one ship, and every ship sunk
Lost(p) == ShipsOf(p) # {} /\ \A r \in ShipsOf(p) : is_sunk(ship[r])

\* C8: has_lost() and all_ships_sunk() return a boolean in every reachable
\* state: True iff at least one ship is placed and every placed ship is sunk.
C8_HasLostBoolean ==
  \A p \in Players :
     /\ has_lost(p).raised = "none"
     /\ has_lost(p).ret = Lost(p)
     /\ all_ships_sunk(p) = has_lost(p)

\* C9: available_targets is the grid minus shots_taken, and each take_turn
\* that fires takes one coordinate out of available_targets and puts that
\* coordinate, new to shots_taken, into shots_taken.
C9_Unfired == available_targets = Grid \ shots_taken["computer"]

C9_TurnStep ==
  turns' = turns + 1 =>
    LET coord == outcome'.arg[1]
    IN /\ coord \in available_targets
       /\ coord \notin shots_taken["computer"]
       /\ available_targets' = available_targets \ {coord}
       /\ shots_taken'["computer"] = shots_taken["computer"] \cup {coord}
       /\ Cardinality(available_targets') = Cardinality(available_targets) - 1

\* C9: available_targets is always the grid minus shots_taken, and every turn
\* moves one new coordinate from the one to the other.
C9_AvailableIsGridMinusShots == []C9_Unfired /\ [][C9_TurnStep]_vars

\* The computer has fired several times, hitting and missing.
C9_Witness ==
  /\ turns > 2
  /\ hits["human"] # {} /\ misses["human"] # {}

\* C10: against a fixed Board the turns visit a new cell each, so there are at
\* most 100 of them; none fails before the 100th, and after the 100th every
\* cell of every ship has been fired upon, so every ship is sunk.
C10_TargetingTerminates ==
  /\ turns = Cardinality(shots_taken["computer"])
  /\ turns <= BOARD_SIZE * BOARD_SIZE
  /\ shots_taken["computer"] = hits["human"] \cup misses["human"]
  /\ turns < BOARD_SIZE * BOARD_SIZE =>
       available_targets # {} /\ outcome.raised = "none"
  /\ turns = BOARD_SIZE * BOARD_SIZE =>
       \A r \in ShipsOf("human") :
          Cells(r) \subseteq shots_taken["computer"] /\ is_sunk(ship[r])

\* All 100 turns were taken against a Board with two ships, now lost.
C10_Witness ==
  /\ turns = BOARD_SIZE * BOARD_SIZE
  /\ Cardinality(ShipsOf("human")) > 1
  /\ Lost("human")

----------------------------------------------------------------------------
(* Claims about the targeting engine, stated on the steps that are turns *)

\* The step is a ComputerPlayer turn that fired
IsTurn == turns' = turns + 1

\* The coordinate a turn fired at, whether it hit, and the cells of the ship
\* it sank (none when it sank no ship)
Shot == outcome'.arg[1]

ShotHit == outcome'.raised = "none" /\ outcome'.ret

SunkCells ==
  IF ShotHit /\ Range(ship'[outcome'.ref].coordinates) = ship'[outcome'.ref].hits
    THEN Range(ship'[outcome'.ref].coordinates)
    ELSE {}

\* Positions of the queue whose coordinate is still available
Live(queue, available) == { k \in 1..Len(queue) : queue[k] \in available }

FirstLive(queue, available) ==
  CHOOSE k \in Live(queue, available) : \A j \in Live(queue, available) : k <= j

\* The queue behind its first available coordinate; empty when it has none
Behind(queue, available) ==
  IF Live(queue, available) = {} THEN << >>
  ELSE SubSeq(queue, FirstLive(queue, available) + 1, Len(queue))

\* The four orthogonal neighbours in the order up, down, left, right
Around(c) ==
  << << c[1] - 1, c[2] >>, << c[1] + 1, c[2] >>,
     << c[1], c[2] - 1 >>, << c[1], c[2] + 1 >> >>

Adjacent(c, d) == \E k \in 1..4 : Around(d)[k] = c

Without(queue, cells) == SelectSeq(queue, LAMBDA c : c \notin cells)

IsPrefix(s, q) == Len(s) <= Len(q) /\ SubSeq(q, 1, Len(s)) = s

\* C15: a turn fires at the first queued coordinate still in
\* available_targets, dropping it and the stale entries before it and keeping
\* the rest of the queue in order (seen whole after a miss, and less the cells
\* of a ship just sunk after a hit); only with no such coordinate is the queue
\* emptied and some member of available_targets fired at.  The coordinate
\* fired at is always in available_targets.
C15_SelectStep ==
  LET rest == Behind(target_queue, available_targets)
  IN IsTurn =>
       /\ Shot \in available_targets
       /\ Live(target_queue, available_targets) # {} =>
            Shot = target_queue[FirstLive(target_queue, available_targets)]
       /\ ~ ShotHit => target_queue' = rest
       /\ ShotHit => IsPrefix(Without(rest, SunkCells), target_queue')
       /\ ( Live(target_queue, available_targets) = {} /\ ~ ShotHit ) =>
            target_queue' = << >>

C15_SelectTarget == [][C15_SelectStep]_vars

\* Between turns the queue starts with a stale entry and has an available
\* coordinate behind it.
C15_Witness ==
  /\ turns > 0 /\ target_queue # << >>
  /\ Head(target_queue) \notin available_targets
  /\ Live(target_queue, available_targets) # {}

\* The neighbours of c that a hit at c enqueues: in bounds and not fired upon
Enqueued(c, available) ==
  SelectSeq(Around(c), LAMBDA n : n \in Grid /\ n \in available /\ n # c)

\* C16: a turn that hits at C appends, behind everything queued, exactly the
\* neighbours of C that are in bounds and still in available_targets, in the
\* order up, down, left, right; a turn that misses appends nothing.  So every
\* queued coordinate is in bounds and was unfired when enqueued, and C is
\* never enqueued by its own hit.
C16_EnqueueStep ==
  LET rest == Behind(target_queue, available_targets)
      new  == Enqueued(Shot, available_targets)
  IN IsTurn =>
       /\ ShotHit =>
            /\ target_queue' = Without(rest, SunkCells) \o new
            /\ \A k \in 1..Len(new) :
                 new[k] \in available_targets' /\ new[k] # Shot
       /\ ~ ShotHit => target_queue' = rest

C16_QueueInBounds == \A k \in 1..Len(target_queue) : _in_bounds(target_queue[k])

C16_EnqueueNeighbors == []C16_QueueInBounds /\ [][C16_EnqueueStep]_vars

\* The last turn hit next to a cell already fired upon, and its neighbours
\* stand in the queue behind coordinates queued earlier.
C16_Witness ==
  /\ turns > 0 /\ outcome.op = "receive_attack" /\ outcome.ret
  /\ \E k \in 1..4 : Around(outcome.arg[1])[k] \in shots_taken["computer"]
  /\ target_queue # << >>
  /\ Adjacent(target_queue[Len(target_queue)], outcome.arg[1])
  /\ ~ Adjacent(Head(target_queue), outcome.arg[1])

\* C17: after a turn whose hit sinks a ship the queue holds no cell of that
\* ship and is what was queued (the entries behind the chosen one, then the
\* new neighbours) with those cells taken out, the order of the others kept;
\* a hit that sinks no ship takes nothing out.
C17_PurgeStep ==
  LET queued == Behind(target_queue, available_targets)
                  \o Enqueued(Shot, available_targets)
  IN ( IsTurn /\ ShotHit ) =>
       IF SunkCells # {}
         THEN /\ \A k \in 1..Len(target_queue') : target_queue'[k] \notin SunkCells
              /\ target_queue' = Without(queued, SunkCells)
         ELSE target_queue' = queued

C17_PurgeSunkShip == [][C17_PurgeStep]_vars

\* The last turn sank a ship whose cells stood in the queue: the purge took
\* them out and left other coordinates queued.
C17_Witness ==
  /\ turns > 0 /\ outcome.op = "receive_attack" /\ outcome.ret
  /\ is_sunk(ship[outcome.ref])
  /\ target_queue # << >>
  /\ Len(kept_queue) > Len(target_queue)
  /\ \E k \in 1..Len(kept_queue) : kept_queue[k] \in Range(ship[outcome.ref].coordinates)

\* The confirmed hits on the opponent's Board, and those on ships still afloat
Confirmed == hits["human"]

Afloat ==
  { h \in hits["human"] : ~ is_sunk(ship[Get(ships["human"], h)]) }

NextTo(cells) == { c \in Grid : \E h \in cells : Adjacent(c, h) }

\* C18 as stated: between turns every queued coordinate is orthogonally
\* adjacent to a confirmed hit on a ship that is not yet sunk.
C18_QueueNextToUnsunkHit ==
  \A k \in 1..Len(target_queue) : target_queue[k] \in NextTo(Afloat)

\* C18 (amended): between turns every queued coordinate is in bounds and
\* orthogonally adjacent to a confirmed hit, whose ship may since have been
\* sunk; with an empty queue the turn fires at a coordinate drawn from
\* available_targets (hunt mode) and queues nothing unless that shot hits.
C18_NextToHit ==
  \A k \in 1..Len(target_queue) : target_queue[k] \in NextTo(Confirmed)

C18_HuntStep ==
  ( IsTurn /\ target_queue = << >> ) =>
    /\ Shot \in available_targets
    /\ ~ ShotHit => target_queue' = << >>

C18_QueueNextToHit == []C18_NextToHit /\ [][C18_HuntStep]_vars

\* A ship has been sunk and a neighbour of one of its cells, adjacent to no
\* hit on a ship afloat, is still queued.
C18_Witness ==
  /\ turns > 0
  /\ \E k \in 1..Len(target_queue) :
       /\ target_queue[k] \in NextTo(Confirmed \ Afloat)
       /\ target_queue[k] \notin NextTo(Afloat)

\* The last step was a turn that hit, at LastHit, and the queue is not exhausted
AfterHit ==
  /\ turns > 0 /\ outcome.op = "receive_attack" /\ outcome.raised = "none"
  /\ outcome.ret
  /\ Live(target_queue, available_targets) # {}

LastHit == outcome.arg[1]

\* C11 as stated: after a turn that hits at C, and until the queue is
\* exhausted, the next turn fires at an orthogonal neighbour of C.
C11_FocusOnLastHitStep == ( AfterHit /\ IsTurn ) => Adjacent(Shot, LastHit)

C11_FocusOnLastHit == [][C11_FocusOnLastHitStep]_vars

\* C11 (amended): after a turn that hits at C, while the queue holds a
\* coordinate not yet fired upon, the next turn fires at the first such queued
\* coordinate, never at a hunt draw; that coordinate is an in-bounds unfired
\* orthogonal neighbour of a confirmed hit, which is C when no neighbour of an
\* earlier hit is still queued ahead of C's.
C11_FocusStep ==
  LET k == FirstLive(target_queue, available_targets)
  IN ( AfterHit /\ IsTurn ) =>
       /\ Shot = target_queue[k]
       /\ Shot \in Grid /\ Shot \notin shots_taken["computer"]
       /\ Shot \in NextTo(Confirmed)
       /\ ( \A j \in Live(target_queue, available_targets) :
              Adjacent(target_queue[j], LastHit) ) => Adjacent(Shot, LastHit)

C11_TargetModeFocus == [][C11_FocusStep]_vars

\* After a second hit the queue still starts with a neighbour of the first
\* hit that is no neighbour of the second.
C11_Witness ==
  /\ AfterHit
  /\ ~ Adjacent(target_queue[FirstLive(target_queue, available_targets)], LastHit)
  /\ \E j \in Live(target_queue, available_targets) :
       Adjacent(target_queue[j], LastHit)

\* The coordinates of a queue that can still be selected, in order
Selectable(queue, available) == SelectSeq(queue, LAMBDA c : c \in available)

\* C20: the purge never changes the cell fired at.  Every coordinate it takes
\* out has already left available_targets, so the queue of the ComputerPlayer
\* and the queue of one without the purge (kept_queue, run on the same Board
\* with the same draws) hold the same selectable coordinates in the same
\* order: both select the same coordinate, or both fall to the hunt draw.
C20_SameChoice ==
  /\ Selectable(target_queue, available_targets)
       = Selectable(kept_queue, available_targets)
  /\ ( Live(target_queue, available_targets) = {} )
       <=> ( Live(kept_queue, available_targets) = {} )
  /\ Live(target_queue, available_targets) # {} =>
       target_queue[FirstLive(target_queue, available_targets)]
         = kept_queue[FirstLive(kept_queue, available_targets)]

C20_PurgedStep ==
  LET queued == Behind(target_queue, available_targets)
                  \o Enqueued(Shot, available_targets)
  IN IsTurn =>
       \A k \in 1..Len(queued) :
         queued[k] \in SunkCells =>
           /\ queued[k] \notin available_targets'
           /\ queued[k] \in shots_taken'["computer"]

C20_PurgeNeverChangesShot == []C20_SameChoice /\ [][C20_PurgedStep]_vars

\* The purge has taken entries out, the two queues differ, and the next shot
\* still comes from the queue.
C20_Witness ==
  /\ turns > 0
  /\ kept_queue # target_queue
  /\ Len(kept_queue) > Len(target_queue)
  /\ Live(target_queue, available_targets) # {}

-----------------------------------------------------------------------------
(* Claims about play_game *)

Targeted(p) == hits[p] \cup misses[p]

\* C12: in the turns of play_game, with any human inputs, each attacker's
\* shots_taken equals the hits and misses of the opponent's Board, no
\* receive_attack raises ValueError, and every take_turn attacks a coordinate
\* that was not targeted before.
C12_ShotsAreTargeted ==
  /\ shots_taken["human"] = Targeted("computer")
  /\ shots_taken["computer"] = Targeted("human")
  /\ outcome.raised # "ValueError"

C12_TurnStep ==
  shots_taken' # shots_taken =>
    /\ outcome'.op = "receive_attack" /\ outcome'.raised = "none"
    /\ outcome'.arg[1] \notin Targeted(outcome'.on)
    /\ outcome'.arg[1] \in hits'[outcome'.on] \cup misses'[outcome'.on]

C12_NoRepeatAttack == []C12_ShotsAreTargeted /\ [][C12_TurnStep]_vars

\* Both players have fired more than once and hit, and the human could type
\* a coordinate already fired at.
C12_Witness ==
  /\ Cardinality(shots_taken["human"]) >= 2
  /\ Cardinality(shots_taken["computer"]) >= 2
  /\ hits["human"] # {} /\ hits["computer"] # {}
  /\ \E text \in Typed : parse_coordinate(text) \in shots_taken["human"]
  /\ target_queue # << >>

\* play_game has come to its loop, and has left it
Playing == Deployed("human") /\ Deployed("computer")

Stopped ==
  /\ Playing
  /\ outcome.raised # "none" \/ ( outcome.op = "has_lost" /\ outcome.ret )

\* C13: in play_game the attacks alternate, the human first (the human has
\* fired as many shots as the computer, or one more); the all_ships_sunk()
\* evaluated after a take_turn says whether the defender's fleet is entirely
\* sunk; a Board has lost only in a match that has stopped or is at that
\* check; and a match that has stopped has exactly one fleet destroyed.
C13_AlternateUntilLost ==
  /\ Cardinality(shots_taken["human"]) - Cardinality(shots_taken["computer"])
       \in { 0, 1 }
  /\ outcome.op = "has_lost" =>
       outcome.raised = "none" /\ outcome.ret = Lost(outcome.on)
  /\ ( Lost("human") \/ Lost("computer") ) =>
       Stopped \/ outcome.op = "receive_attack"
  /\ Stopped => ( Lost("human") # Lost("computer") )

-----------------------------------------------------------------------------
(* Claims about automated placement *)

\* The fleet entries placed on p's Board are the first n of the fleet
PlacedPrefix(p, n) == ShipsOf(p) = { << p, j >> : j \in 1..n }

\* Fleet entry i fits somewhere on p's Board as it stands
Fits(p, i) ==
  \E start \in Grid, horizontal \in BOOLEAN :
     \A k \in 0..(FLEET[i].length - 1) :
        LET c == IF horizontal THEN << start[1], start[2] + k >>
                               ELSE << start[1] + k, start[2] >>
        IN c \in Grid /\ c \notin DOMAIN ships[p]

\* C14: the placement loop places the fleet entries in fleet order, each once
\* (a placed entry holds as many cells as it is long and is never tried
\* again); on every Board it reaches, a valid placement exists for each entry
\* still to place; and under fair draws it ends with the whole fleet placed.
C14_PlacedInOrder ==
  /\ \E n \in 0..Len(FLEET) : PlacedPrefix("computer", n)
  /\ \A r \in ShipsOf("computer") :
       Cardinality({ c \in DOMAIN ships["computer"] : ships["computer"][c] = r })
         = FLEET[r[2]].length
  /\ \A i \in 1..Len(FLEET) :
       << "computer", i >> \notin ShipsOf("computer") => Fits("computer", i)

C14_OnceStep ==
  \A r \in ShipsOf("computer") :
     r \in ShipsOf("computer")' /\ ship'[r] = ship[r]

C14_PlacementSucceeds ==
  /\ []C14_PlacedInOrder
  /\ [][C14_OnceStep]_vars
  /\ <>[]WholeFleet("computer")

\* The whole fleet is placed, after a draw that the Board refused.
C14_Witness ==
  /\ WholeFleet("computer")
  /\ \E c \in Harbour : c \in DOMAIN ships["computer"]
  /\ \E i \in 1..Len(FLEET) :
       ship[<< "computer", i >>].coordinates[1] = Berths[i]

====
